---- MODULE Spec2Model ----
(***************************************************************************)
(* calculagraph: attribute macros that wrap a function with timing         *)
(* instrumentation (src/src/lib.rs).                                       *)
(*                                                                         *)
(* The model has two halves.  The transform half applies one of the four   *)
(* entry macros to an (AttributeArgs, Item) pair and stores what builder   *)
(* produced.  The run half executes the generated function body statement  *)
(* by statement against a wall clock.                                      *)
(*                                                                         *)
(* Text is a sequence of one-character strings, so that to_uppercase,      *)
(* format! and the placeholder substitution act on characters.             *)
(***************************************************************************)
EXTENDS Integers, Sequences, FiniteSets, TLC

VARIABLES
    args,       \* the parsed directive arguments (AttributeArgs)
    item,       \* the parsed annotated item (Item)
    macro,      \* which entry macro was applied, "none" before expansion
    out,        \* what the entry macro produced: a function or a failure
    phase,      \* position of the generated function's invocation
    ip,         \* index of the next statement of the generated body
    clock,      \* wall clock, in nanoseconds
    v_now,      \* the injected start-timestamp variable
    v_result,   \* the injected result variable
    spent,      \* time the original body spent before finishing
    outcome,    \* how the original body finished
    elapsed,    \* the Duration read by elapsed()
    field,      \* the number handed to the sink's placeholder
    text,       \* the formatted text
    emitted,    \* what the sink received, in order
    returned,   \* the value handed back to the caller
    rtrace      \* the steps the invocation has performed, in order

vars == <<args, item, macro, out, phase, ip, clock, v_now, v_result, spent,
          outcome, elapsed, field, text, emitted, returned, rtrace>>

-----------------------------------------------------------------------------
(* Bounds of the model.                                                    *)

MaxArgs == 3        \* longest directive argument list
MaxTicks == 2       \* body durations are 0..MaxTicks times a granule
MaxOverhead == 1    \* nanoseconds the wrapper itself may take per reading

-----------------------------------------------------------------------------
(* Text helpers.                                                           *)

Letters == {"s", "S", "m", "M", "u", "U", "n", "N", "x"}

UpperChar(c) ==
    CASE c = "s" -> "S"
      [] c = "m" -> "M"
      [] c = "u" -> "U"
      [] c = "n" -> "N"
      [] c = "x" -> "X"
      [] OTHER -> c

to_uppercase(s) == [i \in 1..Len(s) |-> UpperChar(s[i])]

DigitChars == <<"0", "1", "2", "3", "4", "5", "6", "7", "8", "9">>

RECURSIVE to_string(_)
to_string(n) ==
    IF n < 10 THEN <<DigitChars[n + 1]>>
    ELSE Append(to_string(n \div 10), DigitChars[(n % 10) + 1])

Placeholders(fmt) ==
    {i \in 1..(Len(fmt) - 1) : fmt[i] = "{" /\ fmt[i + 1] = "}"}

format(fmt, v) ==
    LET i == CHOOSE k \in Placeholders(fmt) : \A j \in Placeholders(fmt) : k <= j
    IN  SubSeq(fmt, 1, i - 1) \o to_string(v) \o SubSeq(fmt, i + 2, Len(fmt))

-----------------------------------------------------------------------------
(* Results: Ok(val), Err(err) from syn::Error, or a panic.                 *)

Unit == <<>>

Ok(v) == [tag |-> "Ok", err |-> "", val |-> v]
Err(e) == [tag |-> "Err", err |-> e, val |-> Unit]
Panic(e) == [tag |-> "Panic", err |-> e, val |-> Unit]

-----------------------------------------------------------------------------
(* TimeUnit.                                                               *)

TimeUnit == {"S", "MS", "US", "NS"}

TimeUnit_quote_mixed(u) ==
    CASE u = "S" -> "as_secs"
      [] u = "MS" -> "as_micros"
      [] u = "US" -> "as_micros"
      [] u = "NS" -> "as_nanos"

TimeUnit_quote(u) ==
    CASE u = "S" -> "as_secs"
      [] u = "MS" -> "as_millis"
      [] u = "US" -> "as_micros"
      [] u = "NS" -> "as_nanos"

TimeUnit_fmt_swapped(u) ==
    CASE u = "S" -> <<"s">>
      [] u = "MS" -> <<"m", "s">>
      [] u = "US" -> <<"m", "s">>
      [] u = "NS" -> <<"n", "s">>

TimeUnit_fmt(u) ==
    CASE u = "S" -> <<"s">>
      [] u = "MS" -> <<"m", "s">>
      [] u = "US" -> <<"u", "s">>
      [] u = "NS" -> <<"n", "s">>

TimeUnit_from(s) ==
    LET up == to_uppercase(s)
    IN  CASE up = <<"S">> -> Ok("S")
          [] up = <<"M", "S">> -> Ok("MS")
          [] up = <<"U", "S">> -> Ok("US")
          [] up = <<"N", "S">> -> Ok("NS")
          [] OTHER -> Panic("InvalidTimeUnit")

-----------------------------------------------------------------------------
(* Directive arguments (syn::NestedMeta) and annotated items (syn::Item).  *)

Meta(kind, segments) == [kind |-> kind, segments |-> segments, value |-> <<>>]
Lit(kind, value) == [kind |-> kind, segments |-> <<>>, value |-> value]

Idents ==
    {<<a>> : a \in Letters} \cup {<<a, b>> : a \in Letters, b \in Letters}
        \cup {<<"m", "s", "x">>}

FmtTook == <<"t", " ", "{", "}", "n", "s">>
FmtPlain == <<"x">>

FirstArgs ==
    {Meta("Path", <<id>>) : id \in Idents}
        \cup {Meta("Path", <<<<"m", "s">>, <<"x">>>>),
              Meta("Path", <<<<"x">>, <<"m", "s">>>>),
              Meta("List", <<<<"m", "s">>>>),
              Meta("NameValue", <<<<"m", "s">>>>),
              Lit("LitStr", <<"m", "s">>),
              Lit("LitInt", <<"1">>)}

SecondArgs ==
    {Lit("LitStr", FmtTook), Lit("LitStr", FmtPlain), Lit("LitByteStr", FmtTook),
     Lit("LitInt", <<"1">>), Lit("LitBool", <<"1">>),
     Meta("Path", <<<<"x">>>>), Meta("List", <<<<"x">>>>)}

ExtraArgs == {Lit("LitStr", FmtTook), Meta("Path", <<<<"x">>>>)}

RECURSIVE ArgsOfLen(_)
ArgsOfLen(n) ==
    IF n = 0 THEN {<<>>}
    ELSE IF n = 1 THEN {<<a>> : a \in FirstArgs}
    ELSE {Append(l, a) : l \in ArgsOfLen(n - 1),
                         a \in IF n = 2 THEN SecondArgs ELSE ExtraArgs}

AttributeArgs == UNION {ArgsOfLen(n) : n \in 0..MaxArgs}

Sig(ident, inputs, output) == [ident |-> ident, inputs |-> inputs, output |-> output]

MkItem(kind, attrs, vis, sig, stmts) ==
    [kind |-> kind, attrs |-> attrs, vis |-> vis, sig |-> sig,
     block |-> [stmts |-> stmts]]

Item ==
    {MkItem("Fn", <<"inline", "must_use">>, "pub",
            Sig(<<"f">>, <<"a">>, "i32"), <<"s1", "s2">>),
     MkItem("Fn", <<>>, "inherited", Sig(<<"m", "s">>, <<>>, "()"), <<>>),
     MkItem("Fn", <<"must_use", "inline", "must_use">>, "crate",
            Sig(<<"g">>, <<"b", "a">>, "String"), <<"s2", "s1", "s2">>),
     MkItem("Struct", <<"inline">>, "pub", Sig(<<"f">>, <<>>, "()"), <<>>),
     MkItem("Mod", <<>>, "inherited", Sig(<<"m", "s">>, <<>>, "()"), <<"s1">>)}

-----------------------------------------------------------------------------
(* builder and its nested helpers.                                         *)

Sinks == {"println!", "log::info!", "log::debug!", "log::trace!"}

UID_SUFFIX == "x7bf707c839bc2554fa3f1913a8dc699b68236726c5da18b31f660948ca7f542a267de9b"

format_ident(prefix) == <<prefix, UID_SUFFIX>>

FnPrefix == <<"f", "n", ":">>
CostInfix == <<" ", "c", "o", "s", "t", " ", "{", "}">>

read_time_unit(u) ==
    IF u.kind = "Path" THEN TimeUnit_from(u.segments[1])
    ELSE Err("InvalidTimeUnit")

read_output_format_any_lit(f) ==
    IF f.kind \in {"LitStr", "LitByteStr"} THEN Ok(f.value)
    ELSE Err("InvalidFormatLiteral")

read_output_format(f) ==
    IF f.kind = "LitStr" THEN Ok(f.value)
    ELSE Err("InvalidFormatLiteral")

parse_args_lenient(a, fn_name) ==
    CASE Len(a) = 0 ->
            Ok([unit |-> "MS", fmt |-> FnPrefix \o fn_name \o CostInfix \o <<"m", "s">>])
      [] Len(a) = 1 ->
            LET u == read_time_unit(a[1])
            IN  IF u.tag # "Ok" THEN u
                ELSE Ok([unit |-> u.val,
                         fmt |-> FnPrefix \o fn_name \o CostInfix \o TimeUnit_fmt(u.val)])
      [] OTHER ->
            LET u == read_time_unit(a[1])
                f == read_output_format(a[2])
            IN  IF u.tag # "Ok" THEN u
                ELSE IF f.tag # "Ok" THEN f
                ELSE Ok([unit |-> u.val, fmt |-> f.val])

parse_args(a, fn_name) ==
    CASE Len(a) = 0 ->
            Ok([unit |-> "MS", fmt |-> FnPrefix \o fn_name \o CostInfix \o <<"m", "s">>])
      [] Len(a) = 1 ->
            LET u == read_time_unit(a[1])
            IN  IF u.tag # "Ok" THEN u
                ELSE Ok([unit |-> u.val,
                         fmt |-> FnPrefix \o fn_name \o CostInfix \o TimeUnit_fmt(u.val)])
      [] Len(a) = 2 ->
            LET u == read_time_unit(a[1])
                f == read_output_format(a[2])
            IN  IF u.tag # "Ok" THEN u
                ELSE IF f.tag # "Ok" THEN f
                ELSE Ok([unit |-> u.val, fmt |-> f.val])
      [] OTHER -> Panic("TooManyArguments")

parse_body_any_item(body) ==
    Ok([attrs |-> body.attrs, vis |-> body.vis, sig |-> body.sig, block |-> body.block])

parse_body(body) ==
    IF body.kind = "Fn"
    THEN Ok([attrs |-> body.attrs, vis |-> body.vis, sig |-> body.sig,
             block |-> body.block])
    ELSE Err("UnsupportedTargetKind")

(* One statement of a generated body; unused fields are empty.             *)
GenStmt(stmt, var, stmts, mac, fmt, method) ==
    [stmt |-> stmt, var |-> var, stmts |-> stmts, mac |-> mac, fmt |-> fmt,
     method |-> method]

LetNow(v) == GenStmt("let_now", v, <<>>, "", <<>>, "")
LetCall(v, stmts) == GenStmt("let_call", v, stmts, "", <<>>, "")
SinkCall(mac, fmt, v, method) == GenStmt("sink", v, <<>>, mac, fmt, method)
ReturnVar(v) == GenStmt("return", v, <<>>, "", <<>>, "")

Reverse(s) == [i \in 1..Len(s) |-> s[Len(s) + 1 - i]]

quote_fn_emit_first(f_attrs, f_vis, f_sig, f_stmts, outputter, o_format, t_formatter) ==
    [attrs |-> f_attrs, vis |-> f_vis, sig |-> f_sig,
     body |-> <<LetNow(format_ident("now_")),
                SinkCall(outputter, o_format, format_ident("now_"), t_formatter),
                LetCall(format_ident("result_"), f_stmts),
                ReturnVar(format_ident("result_"))>>]

quote_fn_reordered(f_attrs, f_vis, f_sig, f_stmts, outputter, o_format, t_formatter) ==
    [attrs |-> Reverse(f_attrs), vis |-> f_vis, sig |-> f_sig,
     body |-> <<LetNow(format_ident("now_")),
                LetCall(format_ident("result_"), Reverse(f_stmts)),
                SinkCall(outputter, o_format, format_ident("now_"), t_formatter),
                ReturnVar(format_ident("result_"))>>]

quote_fn(f_attrs, f_vis, f_sig, f_stmts, outputter, o_format, t_formatter) ==
    [attrs |-> f_attrs, vis |-> f_vis, sig |-> f_sig,
     body |-> <<LetNow(format_ident("now_")),
                LetCall(format_ident("result_"), f_stmts),
                SinkCall(outputter, o_format, format_ident("now_"), t_formatter),
                ReturnVar(format_ident("result_"))>>]

(* What builder hands back, with the helper calls it made, in order.       *)
Built(r, v, steps) == [tag |-> r.tag, err |-> r.err, val |-> v, steps |-> steps]

builder_args_first(a, body, outputter) ==
    LET pa == parse_args(a, body.sig.ident)
        pb == parse_body(body)
    IN  IF pa.tag # "Ok" THEN Built(pa, Unit, <<"parse_args">>)
        ELSE IF pb.tag # "Ok" THEN Built(pb, Unit, <<"parse_args", "parse_body">>)
        ELSE Built(pa,
                   [unit |-> pa.val.unit, fmt |-> pa.val.fmt,
                    func |-> quote_fn(pb.val.attrs, pb.val.vis, pb.val.sig,
                                      pb.val.block.stmts, outputter, pa.val.fmt,
                                      TimeUnit_quote(pa.val.unit))],
                   <<"parse_args", "parse_body", "quote">>)

builder(a, body, outputter) ==
    LET pb == parse_body(body)
    IN  IF pb.tag # "Ok" THEN Built(pb, Unit, <<"parse_body">>)
        ELSE LET f_name == pb.val.sig.ident
                 pa == parse_args(a, f_name)
             IN  IF pa.tag # "Ok" THEN Built(pa, Unit, <<"parse_body", "parse_args">>)
                 ELSE Built(pa,
                            [unit |-> pa.val.unit, fmt |-> pa.val.fmt,
                             func |-> quote_fn(pb.val.attrs, pb.val.vis, pb.val.sig,
                                               pb.val.block.stmts, outputter,
                                               pa.val.fmt, TimeUnit_quote(pa.val.unit))],
                            <<"parse_body", "parse_args", "quote">>)

(* Result::unwrap in the entry macros: an Err becomes a panic of the       *)
(* expansion, so either way no replacement function is produced.           *)
unwrap(r) == IF r.tag = "Err" THEN [r EXCEPT !.tag = "Panic"] ELSE r

NotExpanded == [tag |-> "None", err |-> "", val |-> Unit, steps |-> <<>>]

-----------------------------------------------------------------------------
(* Initial state: a directive and an item, not yet expanded; the clock of  *)
(* the later invocation at zero.                                           *)

Init ==
    /\ args \in AttributeArgs
    /\ item \in Item
    /\ macro = "none"
    /\ out = NotExpanded
    /\ phase = "idle"
    /\ ip = 1
    /\ clock = 0
    /\ v_now = 0
    /\ v_result = "unset"
    /\ spent = 0
    /\ outcome = "none"
    /\ elapsed = 0
    /\ field = 0
    /\ text = <<>>
    /\ emitted = <<>>
    /\ returned = "none"
    /\ rtrace = <<>>

runVars == <<phase, ip, clock, v_now, v_result, spent, outcome, elapsed, field,
             text, emitted, returned, rtrace>>

timer_println ==
    /\ macro = "none"
    /\ macro' = "timer_println"
    /\ out' = unwrap(builder(args, item, "println!"))
    /\ UNCHANGED <<args, item>>
    /\ UNCHANGED runVars

timer_log_info ==
    /\ macro = "none"
    /\ macro' = "timer_log_info"
    /\ out' = unwrap(builder(args, item, "log::info!"))
    /\ UNCHANGED <<args, item>>
    /\ UNCHANGED runVars

timer_log_debug ==
    /\ macro = "none"
    /\ macro' = "timer_log_debug"
    /\ out' = unwrap(builder(args, item, "log::debug!"))
    /\ UNCHANGED <<args, item>>
    /\ UNCHANGED runVars

timer_log_trace ==
    /\ macro = "none"
    /\ macro' = "timer_log_trace"
    /\ out' = unwrap(builder(args, item, "log::trace!"))
    /\ UNCHANGED <<args, item>>
    /\ UNCHANGED runVars

-----------------------------------------------------------------------------
(* Invocation of the generated function.  The statements executed are the  *)
(* ones quote_fn produced; each of the actions below runs one of them.     *)

Values == {"V1", "V2"}

Granules == {1, 500, 500000, 5000000, 500000000}

Durations == {k * g : k \in 0..MaxTicks, g \in Granules}

(* Readings of the clock at the moment the function is called.             *)
StartTimes == {0, 123456789}

(* std::time::Duration's conversions, on a duration held in nanoseconds.    *)
Duration_apply(method, ns) ==
    CASE method = "as_secs" -> ns \div 1000000000
      [] method = "as_millis" -> ns \div 1000000
      [] method = "as_micros" -> ns \div 1000
      [] method = "as_nanos" -> ns

(* println!/log::*! accept the call only if the format string has exactly  *)
(* one placeholder for the one argument; otherwise the generated function  *)
(* does not build and cannot be invoked.                                   *)
Compiles(func) ==
    \A i \in 1..Len(func.body) :
        func.body[i].stmt = "sink" => Cardinality(Placeholders(func.body[i].fmt)) = 1

Generated == out.val.func

Running(kind) ==
    /\ phase = "exec"
    /\ ip <= Len(Generated.body)
    /\ Generated.body[ip].stmt = kind

Cur == Generated.body[ip]

Invoke ==
    /\ phase = "idle"
    /\ out.tag = "Ok"
    /\ Compiles(Generated)
    /\ phase' = "exec"
    /\ clock' \in StartTimes
    /\ UNCHANGED <<args, item, macro, out, ip, v_now, v_result, spent,
                   outcome, elapsed, field, text, emitted, returned, rtrace>>

RecordStart ==
    /\ Running("let_now")
    /\ v_now' = clock
    /\ ip' = ip + 1
    /\ rtrace' = Append(rtrace, "start")
    /\ UNCHANGED <<args, item, macro, out, phase, clock, v_result, spent, outcome,
                   elapsed, field, text, emitted, returned>>

CallBody_catching ==
    /\ Running("let_call")
    /\ \E d \in Durations, o \in {"return", "panic", "hang"}, v \in Values :
        /\ clock' = clock + d
        /\ spent' = d
        /\ outcome' = o
        /\ rtrace' = Append(rtrace, "body")
        /\ IF o = "hang"
           THEN /\ phase' = "diverged"
                /\ UNCHANGED <<ip, v_result>>
           ELSE /\ v_result' = v
                /\ ip' = ip + 1
                /\ UNCHANGED phase
    /\ UNCHANGED <<args, item, macro, out, v_now, elapsed, field, text, emitted,
                   returned>>

CallBody ==
    /\ Running("let_call")
    /\ \E d \in Durations, o \in {"return", "panic", "hang"}, v \in Values :
        /\ clock' = clock + d
        /\ spent' = d
        /\ outcome' = o
        /\ rtrace' = Append(rtrace, "body")
        /\ CASE o = "return" ->
                    /\ v_result' = v
                    /\ ip' = ip + 1
                    /\ UNCHANGED phase
             [] o = "panic" ->
                    /\ phase' = "panicked"
                    /\ UNCHANGED <<ip, v_result>>
             [] o = "hang" ->
                    /\ phase' = "diverged"
                    /\ UNCHANGED <<ip, v_result>>
    /\ UNCHANGED <<args, item, macro, out, v_now, elapsed, field, text, emitted,
                   returned>>

ReadElapsed ==
    /\ Running("sink")
    /\ \E o \in 0..MaxOverhead :
        /\ clock' = clock + o
        /\ elapsed' = clock' - v_now
        /\ field' = Duration_apply(Cur.method, elapsed')
    /\ phase' = "elapsed"
    /\ rtrace' = Append(rtrace, "elapsed")
    /\ UNCHANGED <<args, item, macro, out, ip, v_now, v_result, spent, outcome,
                   text, emitted, returned>>

FormatText ==
    /\ phase = "elapsed"
    /\ text' = format(Cur.fmt, field)
    /\ phase' = "formatted"
    /\ rtrace' = Append(rtrace, "format")
    /\ UNCHANGED <<args, item, macro, out, ip, clock, v_now, v_result, spent,
                   outcome, elapsed, field, emitted, returned>>

Emit ==
    /\ phase = "formatted"
    /\ emitted' = Append(emitted, [sink |-> Cur.mac, text |-> text, value |-> field])
    /\ phase' = "exec"
    /\ ip' = ip + 1
    /\ rtrace' = Append(rtrace, "emit")
    /\ UNCHANGED <<args, item, macro, out, clock, v_now, v_result, spent, outcome,
                   elapsed, field, text, returned>>

Return ==
    /\ Running("return")
    /\ returned' = v_result
    /\ phase' = "returned"
    /\ rtrace' = Append(rtrace, "return")
    /\ UNCHANGED <<args, item, macro, out, ip, clock, v_now, v_result, spent,
                   outcome, elapsed, field, text, emitted>>

Next ==
    \/ timer_println
    \/ timer_log_info
    \/ timer_log_debug
    \/ timer_log_trace
    \/ Invoke
    \/ RecordStart
    \/ CallBody
    \/ ReadElapsed
    \/ FormatText
    \/ Emit
    \/ Return

Spec == Init /\ [][Next]_vars

-----------------------------------------------------------------------------
(* Vocabulary of the properties, stated without the operators above.       *)

Expanded == macro # "none"

Failed(e) == out.tag = "Panic" /\ out.err = e /\ out.val = Unit

UnitTokens(u) ==
    CASE u = "S" -> {<<a>> : a \in {"s", "S"}}
      [] u = "MS" -> {<<a, b>> : a \in {"m", "M"}, b \in {"s", "S"}}
      [] u = "US" -> {<<a, b>> : a \in {"u", "U"}, b \in {"s", "S"}}
      [] u = "NS" -> {<<a, b>> : a \in {"n", "N"}, b \in {"s", "S"}}

ShortName(u) ==
    CASE u = "S" -> <<"s">>
      [] u = "MS" -> <<"m", "s">>
      [] u = "US" -> <<"u", "s">>
      [] u = "NS" -> <<"n", "s">>

IsBareUnitToken(a, u) ==
    a.kind = "Path" /\ Len(a.segments) = 1 /\ a.segments[1] \in UnitTokens(u)

ExpectedDefault(name, suffix) ==
    <<"f", "n", ":">> \o name \o <<" ", "c", "o", "s", "t", " ", "{", "}">> \o suffix

SinkOf(m) ==
    CASE m = "timer_println" -> "println!"
      [] m = "timer_log_info" -> "log::info!"
      [] m = "timer_log_debug" -> "log::debug!"
      [] m = "timer_log_trace" -> "log::trace!"

SelectorOf(u) ==
    CASE u = "S" -> "as_secs"
      [] u = "MS" -> "as_millis"
      [] u = "US" -> "as_micros"
      [] u = "NS" -> "as_nanos"

NanosPer(u) ==
    CASE u = "S" -> 1000000000
      [] u = "MS" -> 1000000
      [] u = "US" -> 1000
      [] u = "NS" -> 1

IsPrefix(s, t) == Len(s) <= Len(t) /\ s = SubSeq(t, 1, Len(s))

FullOrder == <<"start", "body", "elapsed", "format", "emit", "return">>

-----------------------------------------------------------------------------
(* C1: when the original body completes with value V, the invocation runs  *)
(* start timestamp, body, elapsed reading, format, emit, return in that    *)
(* order; by the time it returns it has emitted exactly one measurement    *)
(* (at no point more than one), and it returns V.                          *)
C1_OrderedSingleEmission ==
    outcome \in {"none", "return"} =>
        /\ IsPrefix(rtrace, FullOrder)
        /\ Len(emitted) <= 1
        /\ (Len(emitted) = 1) = (Len(rtrace) >= 5)
        /\ phase = "returned" =>
              /\ rtrace = FullOrder
              /\ Len(emitted) = 1
              /\ emitted[1].sink = SinkOf(macro)
              /\ emitted[1].text = format(out.val.fmt, emitted[1].value)
              /\ returned \in Values
              /\ returned = v_result

C1_Witness ==
    /\ phase = "returned"
    /\ returned = "V2"
    /\ Len(emitted) = 1
    /\ macro = "timer_log_info"

(* C2: when the original body panics or never returns, no measurement is   *)
(* ever emitted and the wrapper never returns: a panic leaves the wrapper  *)
(* unwinding, a body that hangs leaves it hanging.                         *)
C2_FailingBodyEmitsNothing ==
    outcome \in {"panic", "hang"} =>
        /\ emitted = <<>>
        /\ returned = "none"
        /\ phase = (IF outcome = "panic" THEN "panicked" ELSE "diverged")
        /\ rtrace = <<"start", "body">>
        /\ ~ ENABLED Next

C2_Witness ==
    /\ outcome = "panic"
    /\ phase = "panicked"
    /\ spent > 0
    /\ emitted = <<>>

(* C3: on a function named f, no argument gives Millis and the format      *)
(* "fn:f cost {}ms"; one argument that is a unit token in any letter case  *)
(* gives that unit and "fn:f cost {}" followed by its lower-case name.     *)
C3_DefaultFormat ==
    (Expanded /\ item.kind = "Fn") =>
        /\ Len(args) = 0 =>
              /\ out.tag = "Ok"
              /\ out.val.unit = "MS"
              /\ out.val.fmt = ExpectedDefault(item.sig.ident, <<"m", "s">>)
              /\ out.val.func.body[3].fmt = out.val.fmt
        /\ \A u \in TimeUnit :
              (Len(args) = 1 /\ IsBareUnitToken(args[1], u)) =>
                  /\ out.tag = "Ok"
                  /\ out.val.unit = u
                  /\ out.val.fmt = ExpectedDefault(item.sig.ident, ShortName(u))
                  /\ out.val.func.body[3].fmt = out.val.fmt

C3_Witness ==
    /\ Expanded
    /\ item.kind = "Fn"
    /\ args = <<Meta("Path", <<<<"U", "s">>>>)>>
    /\ out.tag = "Ok"
    /\ out.val.unit = "US"
    /\ out.val.fmt = ExpectedDefault(item.sig.ident, <<"u", "s">>)

(* C4: on a function, a directive of one or two arguments whose first      *)
(* argument is not a bare unit token (s, ms, us, ns in any letter case)    *)
(* fails with InvalidTimeUnit and produces no replacement function.        *)
C4_NonUnitFirstArgumentFails ==
    (/\ Expanded
     /\ item.kind = "Fn"
     /\ Len(args) \in {1, 2}
     /\ \A u \in TimeUnit : ~ IsBareUnitToken(args[1], u))
        => Failed("InvalidTimeUnit")

(* C5 as amended: a directive with three or more arguments on a function   *)
(* fails with TooManyArguments whatever the arguments are; on an item      *)
(* that is not a function it fails with UnsupportedTargetKind.  Either     *)
(* way no replacement function is produced.                                *)
C5_TooManyArguments ==
    (Expanded /\ Len(args) >= 3) =>
        Failed(IF item.kind = "Fn" THEN "TooManyArguments" ELSE "UnsupportedTargetKind")

C5_Witness ==
    /\ Expanded
    /\ item.kind = "Fn"
    /\ Len(args) >= 3
    /\ args[1].kind = "LitInt"
    /\ args[2].kind = "LitBool"
    /\ Failed("TooManyArguments")

(* C5 as first stated: three or more arguments fail with TooManyArguments  *)
(* regardless of everything else.                                          *)
C5_Original ==
    (Expanded /\ Len(args) >= 3) => Failed("TooManyArguments")

(* C6: an item that is not a function fails with UnsupportedTargetKind     *)
(* under every directive and every entry macro, and nothing is generated   *)
(* that could be invoked.                                                  *)
C6_NonFunctionRejected ==
    (Expanded /\ item.kind # "Fn") =>
        /\ Failed("UnsupportedTargetKind")
        /\ phase = "idle"

C6_Witness ==
    /\ Expanded
    /\ item.kind = "Struct"
    /\ Len(args) = 2
    /\ args[1] = Meta("Path", <<<<"n", "s">>>>)
    /\ args[2] = Lit("LitStr", FmtTook)
    /\ macro = "timer_log_trace"
    /\ Failed("UnsupportedTargetKind")

(* C7: on a function, with two arguments of which the first resolves to a  *)
(* unit, the directive parses iff the second is a literal text value; the  *)
(* format is then that text verbatim, placeholders unchecked; any other    *)
(* second argument fails with InvalidFormatLiteral.                        *)
C7_FormatLiteral ==
    (/\ Expanded
     /\ item.kind = "Fn"
     /\ Len(args) = 2
     /\ args[1].kind = "Path"
     /\ \E u \in TimeUnit : args[1].segments[1] \in UnitTokens(u))
        => /\ (out.tag = "Ok") = (args[2].kind = "LitStr")
           /\ args[2].kind = "LitStr" =>
                 /\ out.val.fmt = args[2].value
                 /\ out.val.func.body[3].fmt = args[2].value
                 /\ \A u \in TimeUnit :
                       args[1].segments[1] \in UnitTokens(u) => out.val.unit = u
           /\ args[2].kind # "LitStr" => Failed("InvalidFormatLiteral")

C7_Witness ==
    /\ Expanded
    /\ item.kind = "Fn"
    /\ Len(args) = 2
    /\ args[2] = Lit("LitStr", FmtPlain)
    /\ out.tag = "Ok"
    /\ out.val.fmt = FmtPlain

(* C8 as amended: the number emitted is the elapsed duration's whole-unit  *)
(* count in the directive's unit, truncated toward zero and non-negative;  *)
(* it is at least the whole-unit count of the time d the body spent (so    *)
(* at least d in that unit whenever d is a whole number of units); a body  *)
(* that spends 10 ms under unit ms emits a number >= 10.                   *)
C8_EmittedField ==
    emitted # <<>> =>
        LET u == out.val.unit
            n == emitted[1].value
        IN  /\ elapsed >= spent
            /\ n = elapsed \div NanosPer(u)
            /\ n >= 0
            /\ n >= spent \div NanosPer(u)
            /\ (spent % NanosPer(u) = 0) => (n * NanosPer(u) >= spent)
            /\ (u = "MS" /\ spent >= 10 * NanosPer("MS")) => n >= 10

C8_Witness ==
    /\ emitted # <<>>
    /\ out.val.unit = "MS"
    /\ spent = 10 * NanosPer("MS")
    /\ emitted[1].value = 10
    /\ emitted[1].text = <<"f", "n", ":", "f", " ", "c", "o", "s", "t", " ",
                           "1", "0", "m", "s">>

(* C8 as first stated: the number emitted is at least the time d the body  *)
(* spent, expressed in the unit (for every d, whole or not).               *)
C8_Original ==
    emitted # <<>> => emitted[1].value * NanosPer(out.val.unit) >= spent

(* C9: the generated function has the input's attributes in order, its     *)
(* visibility and its signature; its body is the start-timestamp binding,  *)
(* the result binding whose nested scope holds exactly the original        *)
(* statements in order, the sink invocation, and the return of the result. *)
C9_PartsPreserved ==
    out.tag = "Ok" =>
        LET g == out.val.func
        IN  /\ g.attrs = item.attrs
            /\ g.vis = item.vis
            /\ g.sig = item.sig
            /\ Len(g.body) = 4
            /\ g.body[1].stmt = "let_now"
            /\ g.body[2].stmt = "let_call"
            /\ g.body[2].stmts = item.block.stmts
            /\ g.body[3].stmt = "sink"
            /\ g.body[3].mac = SinkOf(macro)
            /\ g.body[3].var = g.body[1].var
            /\ g.body[3].method = SelectorOf(out.val.unit)
            /\ g.body[4].stmt = "return"
            /\ g.body[4].var = g.body[2].var
            /\ g.body[1].var # g.body[2].var

C9_Witness ==
    /\ out.tag = "Ok"
    /\ item.sig.ident = <<"g">>
    /\ Len(args) = 2
    /\ out.val.func.attrs = <<"must_use", "inline", "must_use">>
    /\ out.val.func.body[2].stmts = <<"s2", "s1", "s2">>

(* C10 as amended: every entry macro decomposes the item first, then       *)
(* parses the directive, then synthesizes; the error of the first failing  *)
(* step is reported; when the directive is invalid and the item is not a   *)
(* function the reported error is UnsupportedTargetKind.                   *)
C10_DecomposeThenParse ==
    Expanded =>
        /\ IsPrefix(out.steps, <<"parse_body", "parse_args", "quote">>)
        /\ out.steps # <<>>
        /\ (out.tag = "Ok") = (Len(out.steps) = 3)
        /\ item.kind # "Fn" =>
              (out.steps = <<"parse_body">> /\ Failed("UnsupportedTargetKind"))
        /\ (item.kind = "Fn" /\ parse_args(args, item.sig.ident).tag # "Ok") =>
              /\ out.steps = <<"parse_body", "parse_args">>
              /\ Failed(parse_args(args, item.sig.ident).err)

C10_Witness ==
    /\ Expanded
    /\ item.kind # "Fn"
    /\ parse_args(args, item.sig.ident).tag # "Ok"
    /\ parse_args(args, item.sig.ident).err = "InvalidFormatLiteral"
    /\ Failed("UnsupportedTargetKind")

(* C10 as first stated: when the directive is invalid and the item is not  *)
(* a function, the directive's error is the one reported.                  *)
C10_Original ==
    (/\ Expanded
     /\ item.kind # "Fn"
     /\ parse_args(args, item.sig.ident).tag # "Ok")
        => Failed(parse_args(args, item.sig.ident).err)

====
